---- MODULE Spec2Model ----
(***************************************************************************)
(* A model of pyhawkes/models.py: the discrete-time network Hawkes models  *)
(* (Gibbs and mean-field) and the standard Hawkes model.                   *)
(*                                                                         *)
(* numpy arrays are objects on a heap: a model field, a tuple returned by  *)
(* get_parameters() or copy_sample() and a tuple built by the caller hold  *)
(* references, so sharing an array is visible.  An array is a record       *)
(*   [nd |-> isinstance(x, np.ndarray), shape |-> x.shape, el |-> entries] *)
(* Reals are fixed point: the fields g, p and m count in units of 1/Unit   *)
(* (1.0 is Unit); A, W, lambda0, v, the counts S and the features F are    *)
(* integers.  Array indices are 1-based here and 0-based in the source.    *)
(* The weights of the standard model count in units of 1/(10 Unit).        *)
(***************************************************************************)
EXTENDS Integers, Sequences, FiniteSets, TLC

\* ------------------------------------------------------------- bounds
K == 2          \* number of processes (constructor argument K)
B == 2          \* number of basis functions (constructor argument B)
C == 2          \* number of blocks (constructor argument C)
Unit == 2       \* fixed-point denominator: 1.0 is Unit
NValid == 2     \* how many different valid parameter tuples are drawn
MaxOps == 4     \* calls per run of the runs about inference and parameters
MaxAliasOps == 3 \* calls per run of the runs about shared arrays and
                 \* about the standard model's weights
MaxDataOps == 2 \* calls per run of the runs about add_data and generate
MaxT == 2       \* time bins of a dataset
MaxCount == 1   \* largest event count of one bin
MaxMB == 2      \* largest minibatchsize given to sgd_step
MaxW == 2       \* largest weight of the matrices given to check_stability
MaxQ == 2        \* the variational factors take the values 0..MaxQ
StepDen == 2     \* the stepsizes of sgd_step are 1/StepDen .. StepDen/StepDen
MaxSviOps == 4   \* calls per run of the runs about the stochastic updates
MaxCursorT == 4  \* bins of the dataset in the runs about the sgd cursor
MaxCursorOps == 5 \* calls per run of those runs
MaxStabOps == 1 \* calls per run of the runs about check_stability
MaxGibbsOps == 4  \* calls in a run of the Gibbs model's data and sweeps

\* The weights the standard model is constructed with, in tenths:
\* 1e-1 * np.ones(..) and weights[:,0] = 1.0.
InitWeight == 1
InitBias == 10

\* ------------------------------------------------------------- arrays
Idx(shape) ==
    IF Len(shape) = 1 THEN {<<i>> : i \in 1..shape[1]}
    ELSE IF Len(shape) = 2
         THEN {<<i, j>> : i \in 1..shape[1], j \in 1..shape[2]}
    ELSE IF Len(shape) = 3
         THEN {<<i, j, b>> : i \in 1..shape[1], j \in 1..shape[2], b \in 1..shape[3]}
    ELSE {}

Arr(shape, E(_)) ==
    [nd |-> TRUE, shape |-> shape, el |-> [ix \in Idx(shape) |-> E(ix)]]

\* A value that is not an np.ndarray (a list, None); also the content of an
\* unused heap cell.
NotArr == [nd |-> FALSE, shape |-> <<>>, el |-> <<>>]

SetMin(S) == CHOOSE x \in S : \A y \in S : x <= y
SetMax(S) == CHOOSE x \in S : \A y \in S : x >= y

Entries(a) == {a.el[ix] : ix \in DOMAIN a.el}
amin(a) == SetMin(Entries(a))
amax(a) == SetMax(Entries(a))

RECURSIVE SumTo(_, _)
SumTo(E(_), n) == IF n = 0 THEN 0 ELSE E(n) + SumTo(E, n - 1)

\* a.sum() of a vector and a.sum(axis=2)[i, j] of a 3-d array
VecSum(a) == SumTo(LAMBDA i : a.el[<<i>>], a.shape[1])
RowSum(a, i, j) == SumTo(LAMBDA b : a.el[<<i, j, b>>], a.shape[3])

\* np.allclose(x, 1.0) in fixed point
IsOne(x) == x = Unit

\* ------------------------------------------------------------- names
Models == {"gibbs", "mf"}
Fields == {"A", "W", "g", "lambda0", "c", "p", "v", "m"}
\* The order of the canonical tuple (A, W, g, lambda0, c, p, v, m).
FieldOrder == <<"A", "W", "g", "lambda0", "c", "p", "v", "m">>

\* The heap is made of blocks of eight cells, one per field: eight arrays
\* are always created together (by a constructor, a sweep that binds new
\* arrays, a deep copy, the caller).  A reference names a block and a cell.
NBlocks == Cardinality(Models) + 4
Blocks == 1..NBlocks

\* ------------------------------------------------- parameter contents
\* The i-th valid content of each field: what the constructors and the
\* sub-models' updates keep (A binary, W >= 0, g[k,k',:] on the simplex,
\* lambda0 >= 0, c in [0,C), p in [0,1], v >= 0, m on the simplex).
ValidField(f, i) ==
    CASE f = "A" -> Arr(<<K, K>>, LAMBDA ix :
                        IF i % 2 = 1 THEN 1 ELSE IF ix[1] = ix[2] THEN 0 ELSE 1)
      [] f = "W" -> Arr(<<K, K>>, LAMBDA ix : i + ix[1] - 1)
      [] f = "g" -> Arr(<<K, K, B>>, LAMBDA ix :
                        IF ix[3] = ((i + ix[1]) % B) + 1 THEN Unit ELSE 0)
      [] f = "lambda0" -> Arr(<<K>>, LAMBDA ix : i + ix[1] - 2)
      [] f = "c" -> Arr(<<K>>, LAMBDA ix : (i + ix[1]) % C)
      [] f = "p" -> Arr(<<C, C>>, LAMBDA ix :
                        IF (ix[1] + ix[2] + i) % 2 = 0 THEN Unit ELSE 0)
      [] f = "v" -> Arr(<<C, C>>, LAMBDA ix : i)
      [] f = "m" -> Arr(<<C>>, LAMBDA ix :
                        IF ix[1] = ((i - 1) % C) + 1 THEN Unit ELSE 0)

ValidTuple(i) == [f \in Fields |-> ValidField(f, i)]

\* What a caller may put in place of one field of a tuple: a value of the
\* wrong type, an array of the wrong shape, entries below or above the
\* field's range.
AltKinds == {"type", "shape", "low", "high"}

WrongShape(f) ==
    CASE f = "A" -> <<K, K + 1>>
      [] f = "W" -> <<K + 1, K>>
      [] f = "g" -> <<K, K, B + 1>>
      [] f = "lambda0" -> <<K + 1>>
      [] f = "c" -> <<K + 1>>
      [] f = "p" -> <<C, C + 1>>
      [] f = "v" -> <<C + 1, C>>
      [] f = "m" -> <<C + 1>>

AltField(f, kind, i) ==
    CASE kind = "type" -> NotArr
      [] kind = "shape" ->
            Arr(WrongShape(f), LAMBDA ix :
                IF f \in {"g", "m"} /\ ix[Len(ix)] # 1 THEN 0
                ELSE IF f \in {"g", "m", "p"} THEN Unit
                ELSE IF f = "c" THEN 0 ELSE 1)
      [] kind = "low" ->
            IF f \in {"g", "m"}
            THEN \* entries sum to 1.0 and one of them is negative
                 Arr(ValidField(f, i).shape, LAMBDA ix :
                     IF ix[Len(ix)] = 1 THEN Unit + 1
                     ELSE IF ix[Len(ix)] = 2 THEN -1 ELSE 0)
            ELSE Arr(ValidField(f, i).shape, LAMBDA ix : -1)
      [] kind = "high" ->
            IF f \in {"g", "m"}
            THEN \* entries sum to more than 1.0
                 Arr(ValidField(f, i).shape, LAMBDA ix :
                     IF ix[Len(ix)] = 1 THEN Unit + 1 ELSE 0)
            ELSE IF f = "p" THEN Arr(<<C, C>>, LAMBDA ix : Unit + 1)
            ELSE IF f = "c" THEN Arr(<<K>>, LAMBDA ix : C)
            ELSE Arr(ValidField(f, i).shape, LAMBDA ix : i + 4)

\* A heap cell holds the name <<field, kind, i>> of its content: the i-th
\* valid content of the field, or one of its replacements.  ValTab gives the
\* array a name stands for.
FreeKey == <<"", "free", 0>>
Keys == {<<f, "valid", i>> : f \in Fields, i \in 1..NValid}
        \cup {<<f, kind, NValid>> : f \in Fields, kind \in AltKinds}

\* Contents of A and W for check_stability: the n-th binary K x K matrix
\* (its entries are the binary digits of n), and weights >= 0 that are all
\* w or differ from entry to entry.
StabField(f, kind, n) ==
    IF f = "A"
    THEN Arr(<<K, K>>, LAMBDA ix : (n \div (2 ^ ((ix[1] - 1) * K + ix[2] - 1))) % 2)
    ELSE IF kind = "unif" THEN Arr(<<K, K>>, LAMBDA ix : n)
    ELSE Arr(<<K, K>>, LAMBDA ix : (ix[1] * ix[2] + n) % (MaxW + 1))

StabAKeys == {<<"A", "bin", n>> : n \in 0..(2 ^ (K * K) - 1)}
StabWKeys == {<<"W", kind, w>> : kind \in {"unif", "grad"}, w \in 0..MaxW}

ValTab ==
    [key \in Keys \cup StabAKeys \cup StabWKeys \cup {FreeKey} |->
        IF key[2] = "free" THEN NotArr
        ELSE IF key[2] = "valid" THEN ValidField(key[1], key[3])
        ELSE IF key[2] \in {"bin", "unif", "grad"} THEN StabField(key[1], key[2], key[3])
        ELSE AltField(key[1], key[2], key[3])]

ValidKeys(i) == [f \in Fields |-> <<f, "valid", i>>]

\* The caller's tuples: the first valid tuple, or the last valid tuple with
\* one field replaced.
CallerTuples ==
    {ValidKeys(1)}
    \cup {[ValidKeys(NValid) EXCEPT ![f] = <<f, kind, NValid>>] :
              f \in Fields, kind \in AltKinds}

\* The canonical constraints of the parameter tuple.
OnSimplex(a, n) ==
    /\ \A x \in Entries(a) : x >= 0
    /\ IF n = 3 THEN \A i \in 1..a.shape[1], j \in 1..a.shape[2] : IsOne(RowSum(a, i, j))
       ELSE IsOne(VecSum(a))

Canonical(t) ==
    /\ \A f \in Fields : t[f].nd
    /\ t.A.shape = <<K, K>> /\ Entries(t.A) \subseteq {0, 1}
    /\ t.W.shape = <<K, K>> /\ amin(t.W) >= 0
    /\ t.g.shape = <<K, K, B>> /\ OnSimplex(t.g, 3)
    /\ t.lambda0.shape = <<K>> /\ amin(t.lambda0) >= 0
    /\ t.c.shape = <<K>> /\ Entries(t.c) \subseteq 0..(C - 1)
    /\ t.p.shape = <<C, C>> /\ Entries(t.p) \subseteq 0..Unit
    /\ t.v.shape = <<C, C>> /\ amin(t.v) >= 0
    /\ t.m.shape = <<C>> /\ OnSimplex(t.m, 1)

\* ------------------------------------------------------ set_parameters
\* The eight assertions of set_parameters, in the order of the code; a
\* conjunction stops at its first false conjunct, as Python's `and` does.
ParamChecks(t) ==
    << t.A.nd /\ t.A.shape = <<K, K>>,
       t.W.nd /\ t.W.shape = <<K, K>> /\ amin(t.W) >= 0,
       t.g.nd /\ t.g.shape = <<K, K, B>>
           /\ \A i \in 1..K, j \in 1..K : IsOne(RowSum(t.g, i, j)),
       t.lambda0.nd /\ t.lambda0.shape = <<K>> /\ amin(t.lambda0) >= 0,
       t.c.nd /\ t.c.shape = <<K>> /\ amin(t.c) >= 0 /\ amax(t.c) < C,
       t.p.nd /\ t.p.shape = <<C, C>> /\ amin(t.p) >= 0 /\ amax(t.p) <= Unit,
       t.v.nd /\ t.v.shape = <<C, C>> /\ amin(t.v) >= 0,
       t.m.nd /\ t.m.shape = <<C>> /\ amin(t.m) >= 0 /\ IsOne(VecSum(t.m)) >>

\* The first assertion that fails (1..8), or 0 when all hold.
FirstFail(t) ==
    LET ch == ParamChecks(t)
        bad == {i \in 1..Len(ch) : ~ch[i]}
    IN IF bad = {} THEN 0 ELSE SetMin(bad)

\* A slip where each field is assigned right after its own assertion: a
\* failing call leaves the fields before the failing one assigned.
set_parameters_assign_early(self, params, t) ==
    LET ff == FirstFail(t)
    IN [f \in Fields |->
          IF ff = 0 \/ (\E i \in 1..(ff - 1) : FieldOrder[i] = f)
          THEN params[f] ELSE self[f]]

\* A slip where the weights are assigned from the adjacency matrix.
set_parameters_w_from_a(self, params, t) ==
    IF FirstFail(t) # 0 THEN self
    ELSE [params EXCEPT !.W = params.A]

\* set_parameters(params) on a model whose fields refer to `self`: params
\* is the tuple of references given, t the arrays they refer to.  All
\* assertions come before all assignments.
set_parameters(self, params, t) ==
    IF FirstFail(t) # 0 THEN self
    ELSE [A |-> params.A, W |-> params.W, g |-> params.g,
          lambda0 |-> params.lambda0, c |-> params.c, p |-> params.p,
          v |-> params.v, m |-> params.m]

\* get_parameters(): the model's own arrays, not copies.
get_parameters(self) ==
    [A |-> self.A, W |-> self.W, g |-> self.g, lambda0 |-> self.lambda0,
     c |-> self.c, p |-> self.p, v |-> self.v, m |-> self.m]


\* ------------------------------------------------------------- state
VARIABLES
    heap,        \* heap[b][f]: the content of cell f of block b (FreeKey: unused)
    fld,         \* fld[m][f]: the object model m's field f refers to
                 \*   A, W: weight_model; g: impulse_model; lambda0:
                 \*   bias_model; c, p, v, m: network
    held,        \* the caller's tuple from get_parameters() or its own
    sample,      \* the caller's tuple from copy_sample()
    data_list,   \* data_list[m]: the datasets (S, N, F, parents) of model m
    std,         \* the standard model: its data_list of (S, F) and its weights
    eng,         \* eng[m]: when each sub-model of m was last updated
    now,         \* count of sub-model and parent updates so far
    sgd_offset,  \* the mean-field model's sgd_offset, -1: no such attribute
    ghost,       \* history: what the caller's tuples are copies of, the
                 \* bounds the caller collected from the last two sweeps,
                 \* and the bins of the minibatches since the cursor was at 0
    last,        \* the last call and its outcome
    nops         \* calls left in this run

vars == <<heap, fld, held, sample, data_list, std, eng, now,
          sgd_offset, ghost, last, nops>>

NoRef == [b |-> 0, f |-> ""]
NoTuple == [f \in Fields |-> NoRef]
HasTuple(t) == \A f \in Fields : t[f] # NoRef

\* The arrays a tuple of references refers to.
Deref(h, refs) == [f \in Fields |-> ValTab[h[refs[f].b][refs[f].f]]]

\* The cells some model field or caller tuple refers to.
Used(fl, he, sa) ==
    ({fl[m][f] : m \in Models, f \in Fields}
        \cup {he[f] : f \in Fields} \cup {sa[f] : f \in Fields}) \ {NoRef}

\* Unreferenced cells are reclaimed.
Gc(h, fl, he, sa) ==
    LET used == Used(fl, he, sa)
    IN [b \in Blocks |-> [f \in Fields |->
          IF [b |-> b, f |-> f] \in used THEN h[b][f] ELSE FreeKey]]

\* Eight new objects: the cells of the lowest block no reference in `used`
\* points into.
Fresh(used) ==
    LET fb == SetMin(Blocks \ {r.b : r \in used})
    IN [f \in Fields |-> [b |-> fb, f |-> f]]

\* The heap h with the objects refs[f] holding the contents named t[f].
Store(h, refs, t) ==
    [b \in Blocks |-> [f \in Fields |->
        IF \E x \in Fields : refs[x] = [b |-> b, f |-> f]
        THEN t[CHOOSE x \in Fields : refs[x] = [b |-> b, f |-> f]]
        ELSE h[b][f]]]

Call(op, m, err) == [op |-> op, m |-> m, ok |-> err = "", err |-> err]


\* ------------------------------------------------------------- data
\* A count matrix given to add_data: an array with its dtype.
SArr(shape, dtype, E(_)) ==
    [nd |-> TRUE, shape |-> shape, dtype |-> dtype,
     el |-> [ix \in Idx(shape) |-> E(ix)]]

SNotArr == [nd |-> FALSE, shape |-> <<>>, dtype |-> "none", el |-> <<>>]

SPatterns == {"zeros", "alt", "max"}

SEntry(pat, ix) ==
    CASE pat = "zeros" -> 0
      [] pat = "alt" -> (ix[1] + ix[2]) % 2
      [] pat = "max" -> MaxCount

\* T x K matrices of non-negative integer counts, T = 0 included.
SValid == {SArr(<<T, K>>, "int", LAMBDA ix : SEntry(pat, ix)) :
              T \in 0..MaxT, pat \in SPatterns}

\* Values add_data must refuse: not an array, not 2-dimensional, not K
\* columns, a negative entry, not of integer dtype.
SInvalid ==
    {SNotArr,
     SArr(<<K>>, "int", LAMBDA ix : 1),
     SArr(<<1, K, 1>>, "int", LAMBDA ix : 1),
     SArr(<<1, K + 1>>, "int", LAMBDA ix : 1),
     SArr(<<MaxT, K - 1>>, "int", LAMBDA ix : 0),
     SArr(<<1, K>>, "int", LAMBDA ix : IF ix[2] = 1 THEN -1 ELSE 1),
     SArr(<<MaxT, K>>, "int", LAMBDA ix : IF ix = <<MaxT, K>> THEN -1 ELSE 0),
     SArr(<<1, K>>, "float", LAMBDA ix : 1),
     SArr(<<MaxT, K>>, "float", LAMBDA ix : 0),
     SArr(<<0, K>>, "float", LAMBDA ix : 0)}

\* What add_data's contract asks of S.
IsCountMatrix(S) ==
    /\ S.nd /\ Len(S.shape) = 2 /\ S.shape[2] = K
    /\ S.dtype = "int"
    /\ \A x \in Entries(S) : x >= 0

\* A slip where the sign of the entries is not checked.
add_data_error_no_sign(S) ==
    IF ~(S.nd /\ Len(S.shape) = 2 /\ S.shape[2] = K) THEN "AssertionError"
    ELSE IF ~(S.dtype = "int") THEN "AssertionError"
    ELSE ""

\* The assertion of add_data (the same in both classes): "" when it holds,
\* else the exception raised.  np.amin of an array with no entry raises a
\* ValueError before the comparison is made.
add_data_error(S) ==
    IF ~(S.nd /\ Len(S.shape) = 2 /\ S.shape[2] = K) THEN "AssertionError"
    ELSE IF Entries(S) = {} THEN "ValueError"
    ELSE IF ~(amin(S) >= 0 /\ S.dtype = "int") THEN "AssertionError"
    ELSE ""

\* S.sum(axis=0)
ColSums(S) ==
    Arr(<<S.shape[2]>>, LAMBDA ix : SumTo(LAMBDA t : S.el[<<t, ix[1]>>], S.shape[1]))

\* The basis: BasisL lags and B basis functions, the b-th a unit impulse at
\* lag b.
BasisL == B
Basis(l, b) == IF l = b THEN 1 ELSE 0

\* basis.convolve_with_basis(S): F[t,k,b] = sum over lags l of
\* Basis(l,b) * S[t-l,k].
convolve_with_basis(S) ==
    Arr(<<S.shape[1], S.shape[2], B>>, LAMBDA ix :
        SumTo(LAMBDA l : IF ix[1] - l >= 1
                         THEN Basis(l, ix[3]) * S.el[<<ix[1] - l, ix[2]>>]
                         ELSE 0, BasisL))

\* Rows lo+1 .. hi of a 2-d or 3-d array: a[lo:hi] in the source.
RowSlice(a, lo, hi) ==
    LET n == IF hi > lo THEN hi - lo ELSE 0
        shape == [a.shape EXCEPT ![1] = n]
    IN [a EXCEPT !.shape = shape,
                 !.el = [ix \in Idx(shape) |-> a.el[[ix EXCEPT ![1] = @ + lo]]]]

\* -------------------------------------------------------- compute_rate
\* compute_rate(index) with proc=None, for a model with parameters t and
\* the stored dataset d.  H = transpose(A * W * g, [2,0,1]) is B x K x K;
\* R[:,k2] = lambda0[k2] + tensordot(F, H[:,:,k2], axes=([2,1],[0,1])).
\* Rates are in units of 1/Unit.
compute_rate(t, d) ==
    LET H == Arr(<<B, K, K>>, LAMBDA ix :
                 t.A.el[<<ix[2], ix[3]>>] * t.W.el[<<ix[2], ix[3]>>]
                 * t.g.el[<<ix[2], ix[3], ix[1]>>])
    IN Arr(<<d.S.shape[1], d.S.shape[2]>>, LAMBDA ix :
           t.lambda0.el[<<ix[2]>>] * Unit
           + SumTo(LAMBDA b :
                 SumTo(LAMBDA k1 : d.F.el[<<ix[1], k1, b>>] * H.el[<<b, k1, ix[2]>>],
                       K), B))

\* compute_rate(index, proc) for one process, proc in 1..K here:
\* H = A[:,proc] * W[:,proc] * g[:,proc,:] is K x B;
\* R = lambda0[proc] + tensordot(F, H, axes=([1,2],[0,1])).
compute_rate_proc(t, d, proc) ==
    LET H == Arr(<<K, B>>, LAMBDA ix :
                 t.A.el[<<ix[1], proc>>] * t.W.el[<<ix[1], proc>>]
                 * t.g.el[<<ix[1], proc, ix[2]>>])
    IN Arr(<<d.S.shape[1]>>, LAMBDA ix :
           t.lambda0.el[<<proc>>] * Unit
           + SumTo(LAMBDA k1 :
                 SumTo(LAMBDA b : d.F.el[<<ix[1], k1, b>>] * H.el[<<k1, b>>], B),
                       K))

\* ------------------------------------------------- sub-model updates
\* One sweep works on x = [eng, dl, now, log]: the sub-models' update
\* stamps, the model's data_list, the update count, and the updates made
\* in this call.  A parents object records when it was last updated and
\* the stamps of the bias, weight and impulse models it was given.
ParentStamps(dl) == [d \in 1..Len(dl) |-> dl[d].parents.stamp]

\* A slip where the last node's events are left without a parent.
parents_draw_but_last(S, stamp) ==
    [ix \in DOMAIN S.el |->
        IF ix[2] = K THEN <<>>
        ELSE [j \in 1..S.el[ix] |-> (stamp + 2 * ix[1] + ix[2] + j) % (1 + K * B)]]

\* The assignment parents.resample(..) draws: every one of the S[t,k]
\* events of bin t on node k gets one of the 1 + K B causes, 0 the
\* background, 1 + (k2 - 1) B + (b - 1) the basis function b of node k2.
\* The draw is a function of the moment it is made.
parents_draw(S, stamp) ==
    [ix \in DOMAIN S.el |->
        [j \in 1..S.el[ix] |-> (stamp + 2 * ix[1] + ix[2] + j) % (1 + K * B)]]

\* The sufficient statistics of an assignment z: Z0[t,k] and Z[t,k,k2,b].
CountOf(zs, c) == Cardinality({j \in 1..Len(zs) : zs[j] = c})

Z0(z, t, k) == CountOf(z[<<t, k>>], 0)

Z(z, t, k, k2, b) == CountOf(z[<<t, k>>], 1 + (k2 - 1) * B + (b - 1))

\* The parents of every dataset as resample_model leaves them.
ResampledParents(dl) ==
    [d \in 1..Len(dl) |->
        [dl[d] EXCEPT !.parents.z = parents_draw(dl[d].S, dl[d].parents.stamp)]]

\* bias_model.resample(data=concatenate(Z0)) and
\* bias_model.meanfieldupdate(EZ0=concatenate(EZ0))
BiasUpdate(x) ==
    [x EXCEPT !.now = @ + 1, !.eng.bias = x.now + 1,
              !.log = Append(@, [u |-> "bias", rd |-> ParentStamps(x.dl)])]

\* impulse_model.resample(data=concatenate(Z)) / meanfieldupdate(EZ=...)
ImpulseUpdate(x) ==
    [x EXCEPT !.now = @ + 1, !.eng.impulse = x.now + 1,
              !.log = Append(@, [u |-> "impulse", rd |-> ParentStamps(x.dl)])]

\* weight_model.resample(model=self, N=..., Z=...) / meanfieldupdate(N, EZ)
WeightUpdate(x) ==
    [x EXCEPT !.now = @ + 1, !.eng.weight = x.now + 1,
              !.log = Append(@, [u |-> "weight", rd |-> ParentStamps(x.dl)])]

\* p.resample(bias_model, weight_model, impulse_model) /
\* p.meanfieldupdate(...) for the parents of dataset d
ParentsUpdate(x, d) ==
    LET rd == <<x.eng.bias, x.eng.weight, x.eng.impulse>>
    IN [x EXCEPT !.now = @ + 1,
                 !.dl[d].parents = [@ EXCEPT !.stamp = x.now + 1, !.read = rd],
                 !.log = Append(@, [u |-> "parents", d |-> d, rd |-> rd])]

\* for _,_,_,p in self.data_list: update p -- datasets n+1 .. Len(dl)
RECURSIVE ParentsUpdateFrom(_, _)
ParentsUpdateFrom(x, n) ==
    IF n >= Len(x.dl) THEN x
    ELSE ParentsUpdateFrom(ParentsUpdate(x, n + 1), n + 1)

AllParentsUpdate(x) == ParentsUpdateFrom(x, 0)

\* network.resample(data=(A, W)) / network.meanfieldupdate(weight_model)
NetworkUpdate(x) ==
    [x EXCEPT !.now = @ + 1, !.eng.network = x.now + 1,
              !.eng.netRead = x.eng.weight,
              !.log = Append(@, [u |-> "network", rd |-> <<x.eng.weight>>])]

\* A slip where the network is resampled before the parents.
resample_model_network_early(x) ==
    AllParentsUpdate(NetworkUpdate(WeightUpdate(ImpulseUpdate(BiasUpdate(x)))))

\* A slip where the parents are resampled before the weights.
resample_model_parents_early(x) ==
    LET y == NetworkUpdate(WeightUpdate(AllParentsUpdate(ImpulseUpdate(
                 BiasUpdate(x)))))
    IN [y EXCEPT !.dl = ResampledParents(@)]

\* resample_model() with at least one dataset: bias, impulse, weight,
\* parents of every dataset, network.
resample_model(x) ==
    LET y == NetworkUpdate(AllParentsUpdate(WeightUpdate(ImpulseUpdate(
                 BiasUpdate(x)))))
    IN [y EXCEPT !.dl = ResampledParents(@)]

\* The variational factors as numbers.  Each factor (the parents of a
\* dataset, bias, impulse, weight, network) holds one value of FactorValues;
\* the bound is a sum of one term per parents object and one term per
\* global factor; a mean-field update of a factor maximises the bound over
\* that factor with the others held fixed.
FactorValues == 0..MaxQ

Sq(v) == v * v

Cap(c) == IF c > MaxQ THEN MaxQ ELSE c

ArgMax(f(_)) ==
    CHOOSE v \in FactorValues :
        \A u \in FactorValues : f(v) > f(u) \/ (f(v) = f(u) /\ v <= u)

EventCount(S, lo, hi) ==
    SumTo(LAMBDA i : IF i >= lo /\ i <= hi
                     THEN SumTo(LAMBDA k : S.el[<<i, k>>], K) ELSE 0,
          S.shape[1])

\* p.get_vlb(bias_model, weight_model, impulse_model) of a parents object
\* with expectation e on rows holding c events
ParentsTerm(e, c, q) ==
    0 - (2 * Sq(e - Cap(c)) + Sq(e - q.bias) + Sq(e - q.weight)
           + Sq(e - q.impulse))

\* bias_model.get_vlb() + impulse_model.get_vlb() + weight_model.get_vlb()
\* + network.get_vlb(); the weights' term knows the event counts N.
GlobalTerms(q, N) ==
    0 - (Sq(q.bias - MaxQ) + Sq(q.impulse) + Sq(q.weight - q.network)
           + Sq(q.weight - Cap(N)) + Sq(q.network - 1))

\* The bound for parents expectations es on rows of cs events, with the
\* data terms weighted sd and the global terms weighted sg.
Objective(q, es, cs, N, sd, sg) ==
    sd * SumTo(LAMBDA d : ParentsTerm(es[d], cs[d], q), Len(es))
      + sg * GlobalTerms(q, N)

\* p.meanfieldupdate(bias_model, weight_model, impulse_model)
ParentsMax(c, q) == ArgMax(LAMBDA e : ParentsTerm(e, c, q))

\* The value that factor f's full update takes.
FactorMax(q, f, es, cs, N, sd, sg) ==
    ArgMax(LAMBDA v : Objective([q EXCEPT ![f] = v], es, cs, N, sd, sg))

DataCounts(dl) == [d \in 1..Len(dl) |-> EventCount(dl[d].S, 1, dl[d].S.shape[1])]

DataExpect(dl) == [d \in 1..Len(dl) |-> dl[d].parents.e]

DataN(dl) == SumTo(LAMBDA d : VecSum(dl[d].N), Len(dl))

\* F applied to the value of v, which is computed once.
Eval(v, F(_)) == CHOOSE y \in {F(u) : u \in {v}} : TRUE

FactorOrder == <<"bias", "impulse", "weight", "network">>

\* The full updates of the factors from the i-th of FactorOrder on, each
\* from the factors updated before it, for the statistics
\* st = [es, cs, N].
RECURSIVE meanfield_updates(_, _, _)
meanfield_updates(q, st, i) ==
    IF i > Len(FactorOrder) THEN q
    ELSE Eval([q EXCEPT ![FactorOrder[i]] =
                  FactorMax(q, FactorOrder[i], st.es, st.cs, st.N, 1, 1)],
              LAMBDA p : meanfield_updates(p, st, i + 1))

\* The factors after a full sweep: the parents of every dataset from the
\* factors as they are, then bias, impulse, weight (from the summed N and
\* the parents) and network.
meanfield_factors(x) ==
    Eval([q |-> x.eng.val, cs |-> DataCounts(x.dl), N |-> DataN(x.dl)],
         LAMBDA a :
            Eval([es |-> [d \in 1..Len(a.cs) |-> ParentsMax(a.cs[d], a.q)],
                  cs |-> a.cs, N |-> a.N],
                 LAMBDA st : [es |-> st.es,
                              val |-> meanfield_updates(a.q, st, 1)]))

\* A step of size stepsize/StepDen from old towards target.
sgd_move(old, target, stepsize) ==
    old + ((stepsize * (target - old)) \div StepDen)

\* The sgd steps of the factors from the i-th of FactorOrder on: each
\* moves by stepsize towards its full update for the minibatch's
\* statistics st = [es, cs, N] divided by minibatchfrac = Tmb / T.
RECURSIVE meanfield_sgdsteps(_, _, _, _, _, _)
meanfield_sgdsteps(q, st, T, Tmb, stepsize, i) ==
    IF i > Len(FactorOrder) THEN q
    ELSE Eval([q EXCEPT ![FactorOrder[i]] =
                  sgd_move(@, FactorMax(q, FactorOrder[i], st.es, st.cs,
                                        (st.N * T) \div Tmb, T, Tmb),
                           stepsize)],
              LAMBDA p : meanfield_sgdsteps(p, st, T, Tmb, stepsize, i + 1))

\* The factors after the updates of sgd_step on rows lo..hi of S, T rows in
\* all, with the event counts N of the minibatch: a fresh parents object is
\* updated from the factors as they are, then the global factors take
\* their sgd steps.
sgd_factors_of(q, S, lo, hi, N, stepsize) ==
    Eval([q |-> q, c |-> EventCount(S, lo, hi), N |-> N],
         LAMBDA a :
            Eval([es |-> <<ParentsMax(a.c, a.q)>>, cs |-> <<a.c>>, N |-> a.N],
                 LAMBDA st : meanfield_sgdsteps(a.q, st, S.shape[1],
                                                hi - lo + 1, stepsize, 1)))

\* A slip where the weights' step is not given the minibatch's event counts.
sgd_factors_no_counts(x, lo, hi, stepsize) ==
    sgd_factors_of(x.eng.val, x.dl[1].S, lo, hi, 0, stepsize)

sgd_factors(x, lo, hi, stepsize) ==
    sgd_factors_of(x.eng.val, x.dl[1].S, lo, hi,
                   EventCount(x.dl[1].S, lo, hi), stepsize)

\* A slip where the bound leaves out the parents' terms.
vlb_value_no_parents(x) == GlobalTerms(x.eng.val, DataN(x.dl))

\* get_vlb() as a number.
vlb_value(x) ==
    Eval(x.dl, LAMBDA dl :
        Objective(x.eng.val, DataExpect(dl), DataCounts(dl), DataN(dl), 1, 1))

\* get_vlb(): the parents' terms of every dataset, then the bias, impulse,
\* weight and network terms; the states read and the value.
get_vlb(x) ==
    <<ParentStamps(x.dl), x.eng.bias, x.eng.impulse, x.eng.weight, x.eng.network,
      vlb_value(x)>>

\* A slip where the bound is computed before the network update.
mf_step_vlb_early(x) ==
    LET y == WeightUpdate(ImpulseUpdate(BiasUpdate(AllParentsUpdate(x))))
    IN [x |-> NetworkUpdate(y), ret |-> get_vlb(y)]

\* meanfield_coordinate_descent_step() with at least one dataset.
meanfield_coordinate_descent_step(x) ==
    LET y == NetworkUpdate(WeightUpdate(ImpulseUpdate(BiasUpdate(
                 AllParentsUpdate(x)))))
        after(r) == [y EXCEPT !.eng.val = r.val,
                              !.dl = [d \in 1..Len(y.dl) |->
                                         [y.dl[d] EXCEPT !.parents.e = r.es[d]]]]
    IN Eval(Eval(meanfield_factors(x), after),
            LAMBDA z : [x |-> z, ret |-> get_vlb(z)])

\* A slip where the cursor goes back to 0 in every call.
sgd_next_offset_restart(off, minibatchsize, T) == 0

\* A slip where the cursor advances by one bin.
sgd_next_offset_by_one(off, minibatchsize, T) ==
    IF off = -1 THEN 0
    ELSE IF off + 1 >= T THEN 0 ELSE off + 1

\* The sgd_offset after the cursor step of sgd_step: created at 0, else
\* advanced by minibatchsize and reset to 0 at or past T.
sgd_next_offset(off, minibatchsize, T) ==
    IF off = -1 THEN 0
    ELSE IF off + minibatchsize >= T THEN 0 ELSE off + minibatchsize

\* A slip where sgd_step updates the stored parents of the dataset instead
\* of a fresh object.
sgd_updates_on_stored(x) ==
    LET x1 == ParentsUpdate(x, 1)
        mb == <<x.now + 1>>
        x2 == [x1 EXCEPT !.now = @ + 1, !.eng.bias = x1.now + 1,
                         !.log = Append(@, [u |-> "bias", rd |-> mb])]
        x3 == [x2 EXCEPT !.now = @ + 1, !.eng.impulse = x2.now + 1,
                         !.log = Append(@, [u |-> "impulse", rd |-> mb])]
        x4 == [x3 EXCEPT !.now = @ + 1, !.eng.weight = x3.now + 1,
                         !.log = Append(@, [u |-> "weight", rd |-> mb])]
    IN NetworkUpdate(x4)

\* The updates of sgd_step on a fresh Parents object p of the minibatch:
\* p.meanfieldupdate, then the sgd steps of bias, impulse, weight, network.
sgd_updates(x) ==
    LET rd == <<x.eng.bias, x.eng.weight, x.eng.impulse>>
        x1 == [x EXCEPT !.now = @ + 1,
                        !.log = Append(@, [u |-> "minibatch parents", rd |-> rd])]
        mb == <<x.now + 1>>
        x2 == [x1 EXCEPT !.now = @ + 1, !.eng.bias = x1.now + 1,
                         !.log = Append(@, [u |-> "bias", rd |-> mb])]
        x3 == [x2 EXCEPT !.now = @ + 1, !.eng.impulse = x2.now + 1,
                         !.log = Append(@, [u |-> "impulse", rd |-> mb])]
        x4 == [x3 EXCEPT !.now = @ + 1, !.eng.weight = x3.now + 1,
                         !.log = Append(@, [u |-> "weight", rd |-> mb])]
    IN NetworkUpdate(x4)

\* A slip where only an empty data_list is refused.
sgd_step_allowed_nonempty(dl) == Len(dl) >= 1

\* The precondition of sgd_step: exactly one dataset.
sgd_step_allowed(dl) == Len(dl) = 1


\* ------------------------------------------------------------ add_data
\* add_data(S) of the network models on x = [eng, dl, now, log]: after the
\* assertion, N = S.sum(axis=0), F = convolve_with_basis(S), a new Parents
\* object is resampled from the current sub-models and (S, N, F, parents)
\* is appended.
add_data(x, S) ==
    IF add_data_error(S) # "" THEN x
    ELSE LET rd == <<x.eng.bias, x.eng.weight, x.eng.impulse>>
             parents == [stamp |-> x.now + 1, read |-> rd, e |-> 0,
                         z |-> parents_draw(S, x.now + 1)]
         IN [x EXCEPT !.now = @ + 1,
                      !.dl = Append(@, [S |-> S, N |-> ColSums(S),
                                        F |-> convolve_with_basis(S),
                                        parents |-> parents]),
                      !.log = Append(@, [u |-> "parents", d |-> Len(x.dl) + 1,
                                         rd |-> rd])]

\* The standard model's feature matrix: the T x K x B tensor flattened to
\* T x (K*B) with a column of ones in front.
StdFeatures(S) ==
    LET Ftens == convolve_with_basis(S)
    IN Arr(<<S.shape[1], 1 + K * B>>, LAMBDA ix :
           IF ix[2] = 1 THEN 1
           ELSE Ftens.el[<<ix[1], ((ix[2] - 2) \div B) + 1, ((ix[2] - 2) % B) + 1>>])

\* The minibatches offset = 0, mb, 2 mb, .. < T appended by add_data.
RECURSIVE StdMinibatches(_, _, _, _)
StdMinibatches(S, F, mb, offset) ==
    IF offset >= S.shape[1] THEN <<>>
    ELSE LET end == IF offset + mb < S.shape[1] THEN offset + mb ELSE S.shape[1]
         IN <<[S |-> RowSlice(S, offset, end), F |-> RowSlice(F, offset, end)]>>
            \o StdMinibatches(S, F, mb, end)

\* DiscreteTimeStandardHawkesModel.add_data(S, F=None, minibatchsize):
\* minibatchsize is None, written 0 here, or a positive integer.
std_add_data(dl, S, minibatchsize) ==
    IF add_data_error(S) # "" THEN dl
    ELSE IF minibatchsize = 0
         THEN Append(dl, [S |-> S, F |-> StdFeatures(S)])
         ELSE dl \o StdMinibatches(S, StdFeatures(S), minibatchsize, 0)

\* ------------------------------------------------------------ generate
\* H = A[None,:,:] * W[None,:,:] * G with G = tensordot(basis, g): the
\* BasisL x K x K impulse responses, in units of 1/Unit.
GenH(t) ==
    Arr(<<BasisL, K, K>>, LAMBDA ix :
        t.A.el[<<ix[2], ix[3]>>] * t.W.el[<<ix[2], ix[3]>>]
        * SumTo(LAMBDA b : Basis(ix[1], b) * t.g.el[<<ix[2], ix[3], b>>], B))

\* The (T+L) x K rate buffer after the first n bins of the loop of
\* generate, S[1..n,:] being the counts drawn: it starts at lambda0 and each
\* bin tt with S[tt,k] > 0 adds S[tt,k] * H[:,k,:] to rows tt+1 .. tt+L.
\* A slip where the window of bin tt starts at the bin itself.
GenWindowFromBin(n) == [lo |-> n, hi |-> n + BasisL - 1]

\* The rows R[t+1 : t+L+1] the events of the n-th bin (t = n - 1) add to,
\* rows counted from 1.
GenWindow(n) == [lo |-> n + 1, hi |-> n + BasisL]

RECURSIVE GenRate(_, _, _, _)
GenRate(t, T, S, n) ==
    IF n = 0
    THEN Arr(<<T + BasisL, K>>, LAMBDA ix : t.lambda0.el[<<ix[2]>>] * Unit)
    ELSE LET R == GenRate(t, T, S, n - 1)
             H == GenH(t)
             w == GenWindow(n)
         IN [R EXCEPT !.el = [ix \in DOMAIN R.el |->
                R.el[ix]
                + (IF ix[1] >= w.lo /\ ix[1] <= w.hi
                   THEN SumTo(LAMBDA k : IF S.el[<<n, k>>] > 0
                                         THEN S.el[<<n, k>>]
                                              * H.el[<<ix[1] - w.lo + 1, k, ix[2]>>]
                                         ELSE 0, K)
                   ELSE 0)]]

\* The rates the bins were drawn from: S[t,:] = poisson(R[t,:] * dt) reads
\* row t of the buffer as the bins before t left it.
GenUsed(t, T, S) ==
    Arr(<<T, K>>, LAMBDA ix : GenRate(t, T, S, ix[1] - 1).el[ix])

\* S can be drawn: S[tt,:] ~ Poisson(R[tt,:] * dt) is 0 where the rate is 0.
CanDraw(t, S) ==
    \A tt \in 1..S.shape[1], k \in 1..K :
        GenRate(t, S.shape[1], S, tt - 1).el[<<tt, k>>] = 0 => S.el[<<tt, k>>] = 0

\* The exception generate(keep, T) ends with, "" when it returns: with keep
\* the generated matrix goes through add_data.
generate_error(S, keep) == IF keep THEN add_data_error(S) ELSE ""

\* -------------------------------------------- compute_rate, as called
\* A process index given by a caller: None, an int, a float, a string, or
\* (standard model) an array of one index.
ProcValues ==
    {[ty |-> "none", v |-> 0], [ty |-> "float", v |-> 0], [ty |-> "str", v |-> 0]}
    \cup {[ty |-> "int", v |-> v] : v \in (0 - K - 1)..(K + 1)}

KsValues == ProcValues \cup {[ty |-> "array", v |-> v] : v \in (0 - K - 1)..(K + 1)}

NoRate == [err |-> "", R |-> NotArr]

\* a[i] of numpy for an int i and an axis of length n: 0-based, negative i
\* counts from the end, anything else is an IndexError (0 here).
NumpyIndex(i, n) ==
    IF i >= 0 /\ i < n THEN i + 1
    ELSE IF i < 0 /\ i >= 0 - n THEN n + i + 1
    ELSE 0

\* compute_rate(index=0, proc) of a network model with parameters t and
\* data list dl: the outcome and the rate returned.
compute_rate_call(t, dl, proc) ==
    IF dl = <<>> THEN [NoRate EXCEPT !.err = "AssertionError"]
    ELSE IF proc.ty = "none" THEN [NoRate EXCEPT !.R = compute_rate(t, dl[1])]
    ELSE IF ~(proc.ty = "int" /\ proc.v < K)
         THEN [NoRate EXCEPT !.err = "AssertionError"]
    ELSE IF NumpyIndex(proc.v, K) = 0 THEN [NoRate EXCEPT !.err = "IndexError"]
    ELSE [NoRate EXCEPT !.R = compute_rate_proc(t, dl[1], NumpyIndex(proc.v, K))]

\* F.dot(self.weights[k,:]) for row k (1-based) of the weights
StdRate(F, weights, k) ==
    Arr(<<F.shape[1]>>, LAMBDA ix :
        SumTo(LAMBDA c : F.el[<<ix[1], c>>] * weights.el[<<k, c>>], F.shape[2]))

\* compute_rate(index=None, ks) of the standard model sm.
std_compute_rate(sm, ks) ==
    IF sm.data_list = <<>> THEN [NoRate EXCEPT !.err = "IndexError"]
    ELSE LET F == sm.data_list[1].F
         IN IF ks.ty = "none"
            THEN [NoRate EXCEPT !.R = Arr(<<F.shape[1], K>>, LAMBDA ix :
                                          StdRate(F, sm.weights, ix[2]).el[<<ix[1]>>])]
            ELSE IF ks.ty = "int"
            THEN IF NumpyIndex(ks.v, K) = 0 THEN [NoRate EXCEPT !.err = "IndexError"]
                 ELSE [NoRate EXCEPT !.R = StdRate(F, sm.weights, NumpyIndex(ks.v, K))]
            ELSE IF ks.ty = "array"
            THEN IF NumpyIndex(ks.v, K) = 0 THEN [NoRate EXCEPT !.err = "IndexError"]
                 ELSE [NoRate EXCEPT !.R = Arr(<<F.shape[1], 1>>, LAMBDA ix :
                          StdRate(F, sm.weights, NumpyIndex(ks.v, K)).el[<<ix[1]>>])]
            ELSE [NoRate EXCEPT !.err = "Exception"]

\* ------------------------------------ the standard model's weights
\* initialize_with_gibbs(lambda0, A, W, g) given the parameters t of a
\* network model: weights[k,0] = lambda0[k] and
\* weights[k,1:] = (Weff[:,k][:,None] * g[:,k,:]).ravel(), Weff = A * W.
initialize_with_gibbs(weights, t) ==
    IF ~(t.lambda0.shape = <<K>> /\ t.A.shape = <<K, K>>
         /\ t.W.shape = <<K, K>> /\ t.g.shape = <<K, K, B>>)
    THEN weights
    ELSE Arr(<<K, 1 + K * B>>, LAMBDA ix :
             IF ix[2] = 1 THEN t.lambda0.el[<<ix[1]>>] * InitBias * Unit
             ELSE LET kk == ((ix[2] - 2) \div B) + 1
                      b == ((ix[2] - 2) % B) + 1
                  IN t.A.el[<<kk, ix[1]>>] * t.W.el[<<kk, ix[1]>>]
                     * t.g.el[<<kk, ix[1], b>>] * InitBias)

\* np.exp(np.log(w) + v) for a finite step v: a positive weight moves to a
\* positive weight (here doubled or halved, within 1..MaxWeight), a weight
\* of 0 has the logarithm -inf and stays 0.
MaxWeight == 2 * InitBias * Unit

LogSpaceStep(w, up) ==
    IF w <= 0 THEN 0
    ELSE IF up THEN (IF 2 * w > MaxWeight THEN MaxWeight ELSE 2 * w)
    ELSE (IF w \div 2 < 1 THEN 1 ELSE w \div 2)

\* gradient_descent_step, sgd_step and fit_with_bfgs write every row of the
\* weights as np.exp(..) of its logarithm plus a step.
log_space_update(weights, up) ==
    [weights EXCEPT !.el = [ix \in DOMAIN weights.el |->
                               LogSpaceStep(weights.el[ix], up)]]

\* A slip where the sum over the basis is not transposed.
std_W_no_transpose(weights) ==
    [err |-> "",
     W |-> Arr(<<K, K>>, LAMBDA ix :
               SumTo(LAMBDA z : weights.el[<<ix[1], 1 + (ix[2] - 1) * B + z>>], B))]

\* The property W: WB = weights[:,1:].reshape((K, K, B)) in row-major
\* order, three assertions, W = WB.sum(axis=2).T, and the comparison with
\* Wmanual, which stops in the debugger when it fails.
std_W(weights) ==
    LET flat(p) == weights.el[<<(p \div (K * B)) + 1, (p % (K * B)) + 2>>]
        WB == Arr(<<K, K, B>>, LAMBDA ix :
                  flat((ix[1] - 1) * K * B + (ix[2] - 1) * B + (ix[3] - 1)))
        WT == Arr(<<K, K>>, LAMBDA ix : RowSum(WB, ix[1], ix[2]))
        W == Arr(<<K, K>>, LAMBDA ix : WT.el[<<ix[2], ix[1]>>])
        Wmanual == Arr(<<K, K>>, LAMBDA ix :
                       SumTo(LAMBDA c : IF c >= 2 + (ix[1] - 1) * B
                                           /\ c < 2 + ix[1] * B
                                        THEN weights.el[<<ix[2], c>>] ELSE 0,
                             1 + K * B))
    IN IF ~(WB.el[<<1, 1, B>>] = weights.el[<<1, 1 + B>>]) THEN
            [err |-> "AssertionError", W |-> NotArr]
       ELSE IF ~(WB.el[<<1, K, 1>>] = weights.el[<<1, 2 + (K - 1) * B>>]) THEN
            [err |-> "AssertionError", W |-> NotArr]
       ELSE IF B > 2 /\ ~(WB.el[<<K, K, B - 1>>] = weights.el[<<K, K * B>>]) THEN
            [err |-> "AssertionError", W |-> NotArr]
       ELSE IF W # Wmanual THEN [err |-> "pdb", W |-> NotArr]
       ELSE [err |-> "", W |-> W]

\* ------------------------------------------------------ check_stability
\* The characteristic polynomial of a K x K integer matrix M, K <= 3, as the
\* coefficients <<c1, .., cK>> of x^K + c1 x^(K-1) + .. + cK.
Det2(M, i, j) ==
    M.el[<<i, i>>] * M.el[<<j, j>>] - M.el[<<i, j>>] * M.el[<<j, i>>]

Det3(M) ==
      M.el[<<1, 1>>] * (M.el[<<2, 2>>] * M.el[<<3, 3>>] - M.el[<<2, 3>>] * M.el[<<3, 2>>])
    - M.el[<<1, 2>>] * (M.el[<<2, 1>>] * M.el[<<3, 3>>] - M.el[<<2, 3>>] * M.el[<<3, 1>>])
    + M.el[<<1, 3>>] * (M.el[<<2, 1>>] * M.el[<<3, 2>>] - M.el[<<2, 2>>] * M.el[<<3, 1>>])

Trace(M) == SumTo(LAMBDA i : M.el[<<i, i>>], M.shape[1])

CharPoly(M) ==
    IF M.shape[1] = 1 THEN << -Trace(M) >>
    ELSE IF M.shape[1] = 2 THEN << -Trace(M), Det2(M, 1, 2) >>
    ELSE << -Trace(M), Det2(M, 1, 2) + Det2(M, 1, 3) + Det2(M, 2, 3), -Det3(M) >>

\* np.amax(np.real(np.linalg.eigvals(M))) < 1.0 in exact arithmetic: every
\* root of the characteristic polynomial p has real part below 1, that is
\* every root of q(y) = p(y + 1) has a negative real part (Routh-Hurwitz).
MaxRealEigBelowOne(M) ==
    LET c == CharPoly(M)
        n == Len(c)
    IN IF n = 1 THEN 1 + c[1] > 0
       ELSE IF n = 2 THEN 2 + c[1] > 0 /\ 1 + c[1] + c[2] > 0
       ELSE LET a1 == 3 + c[1]
                a2 == 3 + 2 * c[1] + c[2]
                a3 == 1 + c[1] + c[2] + c[3]
            IN a1 > 0 /\ a3 > 0 /\ a1 * a2 > a3

\* A slip where the comparison is maxeig <= 1.0: one root may be 1 itself.
check_stability_at_most_one(t) ==
    LET M == Arr(<<K, K>>, LAMBDA ix : t.A.el[ix] * t.W.el[ix])
        c == CharPoly(M)
        n == Len(c)
    IN IF n = 1 THEN 1 + c[1] >= 0
       ELSE IF n = 2 THEN 2 + c[1] >= 0 /\ 1 + c[1] + c[2] >= 0
       ELSE LET a1 == 3 + c[1]
                a2 == 3 + 2 * c[1] + c[2]
                a3 == 1 + c[1] + c[2] + c[3]
            IN a1 >= 0 /\ a3 >= 0 /\ a1 * a2 >= a3

\* check_stability() of a network model with parameters t.
check_stability(t) ==
    MaxRealEigBelowOne(Arr(<<K, K>>, LAMBDA ix : t.A.el[ix] * t.W.el[ix]))

\* ---------------------------------------------------------- copy_sample
\* A slip where the tuple is returned without the deep copy.
copy_sample_shallow(self, fresh) == get_parameters(self)

\* copy_sample(): copy.deepcopy(get_parameters()).  fresh are new objects,
\* one per field; fields that share an object share its copy.
copy_sample(self, fresh) ==
    LET t == get_parameters(self)
        first(f) == CHOOSE i \in 1..Len(FieldOrder) :
                        /\ t[FieldOrder[i]] = t[f]
                        /\ \A j \in 1..(i - 1) : t[FieldOrder[j]] # t[f]
    IN [f \in Fields |-> fresh[FieldOrder[first(f)]]]

\* ------------------------------------------------------------- actions
Tick == nops > 0 /\ nops' = nops - 1

X(m) == [eng |-> eng[m], dl |-> data_list[m], now |-> now, log |-> <<>>]

Commit(m, x) ==
    /\ eng' = [eng EXCEPT ![m] = x.eng]
    /\ data_list' = [data_list EXCEPT ![m] = x.dl]
    /\ now' = x.now

\* The caller's list of bounds, vlbs.append(meanfield_coordinate_descent_step()),
\* of which the last two are kept; it starts anew when the datasets of the
\* mean-field model change or sgd_step moves its factors.
ForgetBounds(m, changed) ==
    IF m = "mf" /\ changed THEN [ghost EXCEPT !.vlbs = <<>>] ELSE ghost

AppendBound(v) ==
    [ghost EXCEPT !.vlbs = IF @ = <<>> THEN <<v>> ELSE <<@[Len(@)], v>>]

\* The bins sgd_step has used in the calls of one minibatchsize m that
\* began with a call at offset 0 (m = 0: no such calls).  A call of the
\* same m goes on with them, unless ceil(T/m) calls are done and it is at
\* offset 0, where the next calls begin.
NoCycle == [m |-> 0, bins |-> <<>>, calls |-> 0]

CycleAfter(cycle, off, sgd_end, minibatchsize, T) ==
    LET rows == [i \in 1..(sgd_end - off) |-> off + i - 1]
        n == (T + minibatchsize - 1) \div minibatchsize
    IN IF cycle.m = minibatchsize /\ ~(cycle.calls >= n /\ off = 0)
       THEN [m |-> cycle.m, bins |-> cycle.bins \o rows,
             calls |-> cycle.calls + 1]
       ELSE IF off = 0 THEN [m |-> minibatchsize, bins |-> rows, calls |-> 1]
       ELSE NoCycle

\* The objects the other holders refer to, when model m drops its own.
UsedButModel(m) == Used([fld EXCEPT ![m] = NoTuple], held, sample)

\* The sub-models of m take new parameter values, the i-th valid ones: by
\* writing into their arrays (inplace) or by binding new arrays.
Redraw(m, i, inplace) ==
    LET refs == IF inplace THEN fld[m] ELSE Fresh(UsedButModel(m))
    IN /\ fld' = [fld EXCEPT ![m] = refs]
       /\ heap' = Gc(Store(heap, refs, ValidKeys(i)), fld', held, sample)

\* The caller builds a tuple of eight new arrays.
MakeTuple(t) ==
    LET refs == Fresh(Used(fld, NoTuple, sample))
    IN /\ Tick
       /\ held' = refs
       /\ heap' = Gc(Store(heap, refs, t), fld, refs, sample)
       /\ ghost' = [ghost EXCEPT !.heldFrom = "none"]
       /\ last' = Call("make_tuple", "caller", "")
       /\ UNCHANGED <<fld, sample, data_list, std, eng, now, sgd_offset>>

\* The caller writes new entries into one array of a tuple it holds.
ModifyTuple(which, f, new) ==
    LET tuple == IF which = "held" THEN held ELSE sample
    IN /\ Tick
       /\ HasTuple(tuple)
       /\ ValTab[heap[tuple[f].b][tuple[f].f]].nd
       /\ ValTab[new].nd
       /\ ValTab[new].shape = ValTab[heap[tuple[f].b][tuple[f].f]].shape
       /\ new # heap[tuple[f].b][tuple[f].f]
       /\ heap' = [heap EXCEPT ![tuple[f].b][tuple[f].f] = new]
       /\ ghost' = [ghost EXCEPT
                      !.heldFrom = IF \E h \in Fields : held[h] = tuple[f]
                                   THEN "none" ELSE @,
                      !.snap = IF which = "sample" THEN Deref(heap', sample)
                               ELSE @]
       /\ last' = Call("modify_" \o which, "caller", "")
       /\ UNCHANGED <<fld, held, sample, data_list, std, eng, now, sgd_offset>>

GetParameters(m) ==
    /\ Tick
    /\ held' = get_parameters(fld[m])
    /\ heap' = Gc(heap, fld, held', sample)
    /\ ghost' = [ghost EXCEPT !.heldFrom = m]
    /\ last' = Call("get_parameters", m, "")
    /\ UNCHANGED <<fld, sample, data_list, std, eng, now, sgd_offset>>

SetParameters(m, src) ==
    LET tuple == IF src = "held" THEN held ELSE sample
        t == Deref(heap, tuple)
        ff == FirstFail(t)
    IN /\ Tick
       /\ HasTuple(tuple)
       /\ fld' = [fld EXCEPT ![m] = set_parameters(fld[m], tuple, t)]
       /\ heap' = Gc(heap, fld', held, sample)
       /\ ghost' = [ghost EXCEPT
                      !.given = @ \/ (src = "sample" /\ fld'[m] # fld[m]),
                      !.heldFrom = IF m = @ /\ fld'[m] # fld[m] THEN "none" ELSE @]
       /\ last' = Call("set_parameters", m, IF ff = 0 THEN "" ELSE "AssertionError")
                    @@ [fail |-> ff, src |-> src,
                        from |-> IF src = "held" THEN ghost.heldFrom ELSE "none",
                        changed |-> Deref(heap', fld'[m]) # Deref(heap, fld[m])]
       /\ UNCHANGED <<held, sample, data_list, std, eng, now, sgd_offset>>

CopySample ==
    LET fresh == Fresh(Used(fld, held, NoTuple))
        refs == copy_sample(fld["gibbs"], fresh)
    IN /\ Tick
       /\ sample' = refs
       /\ heap' = Gc(Store(heap, refs, [f \in Fields |->
                           heap[fld["gibbs"][f].b][fld["gibbs"][f].f]]),
                     fld, held, refs)
       /\ ghost' = [ghost EXCEPT !.snap = Deref(heap', refs), !.given = FALSE]
       /\ last' = Call("copy_sample", "gibbs", "")
       /\ UNCHANGED <<fld, held, data_list, std, eng, now, sgd_offset>>

AddData(m, S) ==
    LET x == add_data(X(m), S)
    IN /\ Tick
       /\ Commit(m, x)
       /\ last' = Call("add_data", m, add_data_error(S)) @@ [S |-> S, log |-> x.log]
       /\ ghost' = ForgetBounds(m, TRUE)
       /\ UNCHANGED <<heap, fld, held, sample, std, sgd_offset>>

StdAddData(S, minibatchsize) ==
    /\ Tick
    /\ std' = [std EXCEPT !.data_list = std_add_data(@, S, minibatchsize)]
    /\ last' = Call("add_data", "std", add_data_error(S)) @@ [S |-> S, log |-> <<>>]
    /\ UNCHANGED <<heap, fld, held, sample, data_list, eng, now, sgd_offset, ghost>>

\* resample_model() of the Gibbs model.  With no dataset the first
\* np.concatenate raises a ValueError before any sub-model is touched.
ResampleModel(i, inplace) ==
    /\ Tick
    /\ IF data_list["gibbs"] = <<>>
       THEN /\ last' = Call("resample_model", "gibbs", "ValueError") @@ [log |-> <<>>]
            /\ UNCHANGED <<heap, fld, data_list, eng, now, ghost>>
       ELSE LET x == resample_model(X("gibbs"))
            IN /\ Commit("gibbs", x)
               /\ Redraw("gibbs", i, inplace)
               /\ ghost' = [ghost EXCEPT
                              !.heldFrom = IF @ = "gibbs" THEN "none" ELSE @]
               /\ last' = Call("resample_model", "gibbs", "") @@ [log |-> x.log]
    /\ UNCHANGED <<held, sample, std, sgd_offset>>

\* meanfield_coordinate_descent_step() of the mean-field model: it updates
\* variational factors only, the sampled parameters stay.
MeanfieldStep ==
    /\ Tick
    /\ IF data_list["mf"] = <<>>
       THEN /\ last' = Call("meanfield_coordinate_descent_step", "mf", "ValueError")
                         @@ [log |-> <<>>]
            /\ UNCHANGED <<data_list, eng, now, ghost>>
       ELSE \E r \in {meanfield_coordinate_descent_step(X("mf"))} :
               /\ Commit("mf", r.x)
               /\ last' = Call("meanfield_coordinate_descent_step", "mf", "")
                            @@ [log |-> r.x.log, ret |-> r.ret]
               /\ ghost' = AppendBound(r.ret[6])
    /\ UNCHANGED <<heap, fld, held, sample, std, sgd_offset>>

\* sgd_step(minibatchsize, stepsize / StepDen) of the mean-field model,
\* minibatchsize >= 1.
SgdStep(minibatchsize, stepsize) ==
    /\ Tick
    /\ IF ~sgd_step_allowed(data_list["mf"])
       THEN /\ last' = Call("sgd_step", "mf", "AssertionError") @@ [log |-> <<>>]
            /\ UNCHANGED <<data_list, eng, now, sgd_offset, ghost>>
       ELSE LET T == data_list["mf"][1].S.shape[1]
                off == sgd_next_offset(sgd_offset, minibatchsize, T)
                sgd_end == IF off + minibatchsize < T THEN off + minibatchsize ELSE T
                moved == [sgd_updates(X("mf")) EXCEPT !.eng.val =
                             sgd_factors(X("mf"), off + 1, sgd_end, stepsize)]
            IN \E x \in {moved} :
               /\ sgd_offset' = off
               /\ Commit("mf", x)
               /\ last' = Call("sgd_step", "mf", "")
                            @@ [log |-> x.log, offset |-> off, T |-> T,
                                T_minibatch |-> sgd_end - off,
                                sgd_end |-> sgd_end,
                                minibatchsize |-> minibatchsize,
                                stepsize |-> stepsize]
               /\ ghost' = [ForgetBounds("mf", TRUE) EXCEPT !.cycle =
                                CycleAfter(@, off, sgd_end, minibatchsize, T)]
    /\ UNCHANGED <<heap, fld, held, sample, std>>

\* resample_from_mf(): bias, weight, impulse and network draw new samples
\* from their factors.
ResampleFromMf(i, inplace) ==
    /\ Tick
    /\ Redraw("mf", i, inplace)
    /\ ghost' = [ghost EXCEPT !.heldFrom = IF @ = "mf" THEN "none" ELSE @]
    /\ last' = Call("resample_from_mf", "mf", "")
                 @@ [log |-> <<"bias", "weight", "impulse", "network">>]
    /\ UNCHANGED <<held, sample, data_list, std, eng, now, sgd_offset>>

\* generate(keep, T) of a network model with the counts S drawn (T rows):
\* returns (S, R[:T]); with keep it adds S to the data list.
Generate(m, keep, S) ==
    LET t == Deref(heap, fld[m])
        T == S.shape[1]
        x == IF keep THEN add_data(X(m), S) ELSE X(m)
    IN /\ Tick
       /\ CanDraw(t, S)
       /\ Commit(m, x)
       /\ last' = Call("generate", m, generate_error(S, keep))
                    @@ [T |-> T, keep |-> keep, S |-> S,
                        R |-> RowSlice(GenRate(t, T, S, T), 0, T),
                        used |-> GenUsed(t, T, S)]
       /\ ghost' = ForgetBounds(m, keep)
       /\ UNCHANGED <<heap, fld, held, sample, std, sgd_offset>>

\* compute_rate(proc=proc) of network model m, on its first dataset.
ComputeRate(m, proc) ==
    LET r == compute_rate_call(Deref(heap, fld[m]), data_list[m], proc)
    IN /\ Tick
       /\ last' = Call("compute_rate", m, r.err) @@ [proc |-> proc, R |-> r.R]
       /\ UNCHANGED <<heap, fld, held, sample, data_list, std, eng, now,
                      sgd_offset, ghost>>

\* compute_rate(ks=ks) of the standard model, on its first dataset.
StdComputeRate(ks) ==
    LET r == std_compute_rate(std, ks)
    IN /\ Tick
       /\ last' = Call("compute_rate", "std", r.err) @@ [proc |-> ks, R |-> r.R]
       /\ UNCHANGED <<heap, fld, held, sample, data_list, std, eng, now,
                      sgd_offset, ghost>>

\* std.initialize_with_gibbs(lambda0, A, W, g) with the parameters of
\* network model m.
StdInitializeWithGibbs(m) ==
    /\ Tick
    /\ std' = [std EXCEPT !.weights = initialize_with_gibbs(@, Deref(heap, fld[m]))]
    /\ last' = Call("initialize_with_gibbs", "std", "")
    /\ UNCHANGED <<heap, fld, held, sample, data_list, eng, now, sgd_offset, ghost>>

\* gradient_descent_step, sgd_step or fit_with_bfgs of the standard model.
\* They need a dataset: with none, np.random.choice(0) raises in sgd_step
\* and compute_gradient reads a local it never assigned in the other two
\* (fit_with_bfgs has by then written exp(log(weights)) back).
StdFit(op, up) ==
    /\ Tick
    /\ IF std.data_list = <<>>
       THEN /\ std' = std
            /\ last' = Call(op, "std", IF op = "sgd_step" THEN "ValueError"
                                       ELSE "UnboundLocalError")
       ELSE /\ std' = [std EXCEPT !.weights = log_space_update(@, up)]
            /\ last' = Call(op, "std", "")
    /\ UNCHANGED <<heap, fld, held, sample, data_list, eng, now, sgd_offset, ghost>>

\* Reading the property W of the standard model.
StdW ==
    LET r == std_W(std.weights)
    IN /\ Tick
       /\ last' = Call("W", "std", r.err) @@ [ret |-> r.W]
       /\ UNCHANGED <<heap, fld, held, sample, data_list, std, eng, now,
                      sgd_offset, ghost>>

\* check_stability() of model m: it reads the weights and prints.
CheckStability(m) ==
    /\ Tick
    /\ last' = Call("check_stability", m, "")
                 @@ [ret |-> check_stability(Deref(heap, fld[m]))]
    /\ UNCHANGED <<heap, fld, held, sample, data_list, std, eng, now,
                   sgd_offset, ghost>>

\* ---------------------------------------------------------------- Init
NoEng ==
    [bias |-> 0, impulse |-> 0, weight |-> 0, network |-> 0, netRead |-> 0,
     val |-> [bias |-> 0, impulse |-> 0, weight |-> 0, network |-> 0]]

\* Two models of the same K, B and C and an empty standard model, each
\* network model with valid parameters of its own: the Gibbs model any of
\* the valid ones, the mean-field model the last.
InitOf(budget, gk) ==
        LET j == NValid
            r1 == Fresh({})
            r2 == Fresh({r1[f] : f \in Fields})
        IN /\ fld = [m \in Models |-> IF m = "gibbs" THEN r1 ELSE r2]
           /\ heap = Store(Store([b \in Blocks |-> [f \in Fields |-> FreeKey]],
                                 r1, gk), r2, ValidKeys(j))
           /\ held = NoTuple
           /\ sample = NoTuple
           /\ data_list = [m \in Models |-> <<>>]
           /\ std = [data_list |-> <<>>,
                     weights |-> Arr(<<K, 1 + K * B>>, LAMBDA ix :
                                     IF ix[2] = 1 THEN InitBias * Unit
                                     ELSE InitWeight * Unit)]
           /\ eng = [m \in Models |-> NoEng]
           /\ now = 0
           /\ sgd_offset = -1
           /\ ghost = [heldFrom |-> "none", snap |-> NoTuple, given |-> FALSE,
                       vlbs |-> <<>>, cycle |-> NoCycle]
           /\ last = Call("init", "", "")
           /\ nops = budget

InitWith(budget) == \E i \in 1..NValid : InitOf(budget, ValidKeys(i))

Init == InitWith(MaxOps)
InitAlias == InitWith(MaxAliasOps)
InitData == InitWith(MaxDataOps)

\* Count matrices of every T in 1..MaxT for the runs that are not about
\* add_data's validation.
SFew == {SArr(<<T, K>>, "int", LAMBDA ix : SEntry("alt", ix)) : T \in 1..MaxT}

SOne == SArr(<<MaxT, K>>, "int", LAMBDA ix : SEntry("alt", ix))

\* ------------------------------------------------------ specifications
\* Inference: the sweeps of the two models.  No caller holds a tuple here,
\* so redrawing in place and binding new arrays leave the same state; the
\* cursor of sgd_step has runs of its own.
Next ==
    \/ \E m \in Models, S \in SFew : AddData(m, S)
    \/ \E i \in 1..NValid : ResampleModel(i, TRUE)
    \/ MeanfieldStep
    \/ SgdStep(MaxMB, StepDen)
    \/ \E i \in 1..NValid : ResampleFromMf(i, TRUE)

Spec == Init /\ [][Next]_vars

\* Parameters: tuples built by the caller or read from a model, given to
\* set_parameters.
NextParams ==
    \/ \E t \in CallerTuples : MakeTuple(t)
    \/ \E m \in Models : GetParameters(m)
    \/ \E m \in Models : SetParameters(m, "held")
    \/ \E m \in Models : AddData(m, SOne)

SpecParams == Init /\ [][NextParams]_vars


\* Aliasing: what the caller's tuples share with the models.
ModValues(f) ==
    {<<f, "valid", i>> : i \in 1..NValid} \cup {<<f, "low", NValid>>}

NextAlias ==
    \/ CopySample
    \/ \E m \in Models : GetParameters(m)
    \/ \E m \in Models, src \in {"held", "sample"} : SetParameters(m, src)
    \/ \E which \in {"held", "sample"}, f \in Fields :
           \E new \in ModValues(f) : ModifyTuple(which, f, new)
    \/ AddData("gibbs", SOne)
    \/ \E i \in 1..NValid, inplace \in BOOLEAN : ResampleModel(i, inplace)
    \/ \E i \in 1..NValid, inplace \in BOOLEAN : ResampleFromMf(i, inplace)

SpecAlias == InitAlias /\ [][NextAlias]_vars

\* Data: what add_data and generate take and store.  The minibatchsize of
\* the standard model is None (0) or a positive integer.
MinibatchSizes == {0, MaxMB}

NextData ==
    \/ \E S \in SValid \cup SInvalid : AddData("gibbs", S)
    \/ \E S \in SValid \cup SInvalid, mb \in MinibatchSizes : StdAddData(S, mb)
    \/ \E keep \in BOOLEAN, S \in SValid : Generate("gibbs", keep, S)

SpecData == InitData /\ [][NextData]_vars

\* Stability: check_stability on models whose A is any binary matrix and
\* whose W is non-negative.
InitStab ==
    \E a \in StabAKeys, w \in StabWKeys :
        InitOf(MaxStabOps, [ValidKeys(1) EXCEPT !.A = a, !.W = w])

NextStab == \E m \in Models : CheckStability(m)

SpecStab == InitStab /\ [][NextStab]_vars

\* Rates: compute_rate with the process indices a caller may give.
NextRate ==
    \/ \E m \in Models : AddData(m, SOne)
    \/ StdAddData(SOne, 0)
    \/ \E m \in Models, proc \in ProcValues : ComputeRate(m, proc)
    \/ \E ks \in KsValues : StdComputeRate(ks)

SpecRate == InitData /\ [][NextRate]_vars

\* The standard model: what writes its weights and what reads them.
NextStd ==
    \/ StdAddData(SOne, 0)
    \/ \E m \in Models : StdInitializeWithGibbs(m)
    \/ \E op \in {"gradient_descent_step", "sgd_step", "fit_with_bfgs"},
          up \in BOOLEAN : StdFit(op, up)
    \/ StdW

SpecStd == InitAlias /\ [][NextStd]_vars

\* Stochastic updates: sgd_step of any minibatchsize and stepsize, and the
\* full sweep, on one dataset or two.
InitSvi == InitWith(MaxSviOps)

NextSvi ==
    \/ \E S \in SFew : AddData("mf", S)
    \/ MeanfieldStep
    \/ \E mb \in 1..MaxT, stepsize \in 1..StepDen : SgdStep(mb, stepsize)
    \/ \E i \in 1..NValid, inplace \in BOOLEAN : ResampleFromMf(i, inplace)

SpecSvi == InitSvi /\ [][NextSvi]_vars

\* The cursor of sgd_step: one dataset of 1..MaxCursorT bins, or two, and
\* minibatches of every size up to MaxCursorT.
SCursor == {SArr(<<T, K>>, "int", LAMBDA ix : SEntry("alt", ix)) :
               T \in 1..MaxCursorT}

InitCursor == InitWith(MaxCursorOps)

NextCursor ==
    \/ \E S \in SCursor : AddData("mf", S)
    \/ \E mb \in 1..MaxCursorT : SgdStep(mb, StepDen)

SpecCursor == InitCursor /\ [][NextCursor]_vars

\* The Gibbs model alone: its datasets, given or generated, and its sweeps.
InitGibbs == InitWith(MaxGibbsOps)

NextGibbs ==
    \/ \E S \in SFew : AddData("gibbs", S)
    \/ \E keep \in BOOLEAN, S \in SFew : Generate("gibbs", keep, S)
    \/ \E i \in 1..NValid : ResampleModel(i, TRUE)

SpecGibbs == InitGibbs /\ [][NextGibbs]_vars

\* ------------------------------------------------------------ properties
\* The names of the updates of a call, in the order they were made.
StepsOf(log) == [i \in 1..Len(log) |-> log[i].u]

GibbsOrder(n) ==
    <<"bias", "impulse", "weight">> \o [d \in 1..n |-> "parents"] \o <<"network">>

MeanFieldOrder(n) ==
    [d \in 1..n |-> "parents"] \o <<"bias", "impulse", "weight", "network">>

\* C1 (as stated): every resample_model() call makes the updates bias,
\* impulse, weight, parents of every stored dataset, network, in that order.
C1_EveryCallSweeps ==
    last.op = "resample_model" =>
        /\ last.ok
        /\ StepsOf(last.log) = GibbsOrder(Len(data_list["gibbs"]))

\* C1 (amended): with at least one stored dataset a resample_model() call
\* makes exactly the updates bias, impulse, weight, parents of each dataset
\* once and in turn, network, with nothing between the weight update and the
\* parents; the parents are given the models just updated and the network
\* reads the weights of this sweep.  With no dataset the call raises before
\* any update.
C1_ResampleOrder ==
    [][last'.op = "resample_model" =>
         LET n == Len(data_list["gibbs"])
             log == last'.log
             e == eng'["gibbs"]
             dl == data_list'["gibbs"]
         IN IF n = 0
            THEN ~last'.ok /\ log = <<>>
                 /\ UNCHANGED <<eng, data_list, now, fld, heap>>
            ELSE /\ last'.ok
                 /\ StepsOf(log) = GibbsOrder(n)
                 /\ now' = now + n + 4
                 /\ e.bias = now + 1 /\ e.impulse = now + 2 /\ e.weight = now + 3
                 /\ \A d \in 1..n :
                       /\ log[3 + d].d = d
                       /\ log[3 + d].rd = <<e.bias, e.weight, e.impulse>>
                       /\ dl[d].parents.stamp = e.weight + d
                       /\ dl[d].parents.read = <<e.bias, e.weight, e.impulse>>
                 /\ e.network = now' /\ e.netRead = e.weight
                 /\ log[n + 4].rd = <<e.weight>>
      ]_vars

\* A sweep over two datasets or more has been made.
C1_SweepOverDatasets ==
    /\ last.op = "resample_model" /\ last.ok
    /\ Len(data_list["gibbs"]) >= 2
    /\ Len(last.log) = Len(data_list["gibbs"]) + 4

\* C2 (as stated): every meanfield_coordinate_descent_step() call updates
\* the parents of every dataset, then bias, impulse, weight and network, and
\* returns the bound.
C2_EveryCallSweeps ==
    last.op = "meanfield_coordinate_descent_step" =>
        /\ last.ok
        /\ StepsOf(last.log) = MeanFieldOrder(Len(data_list["mf"]))

\* C2 (amended): with at least one stored dataset a
\* meanfield_coordinate_descent_step() call updates the parents of each
\* dataset first (from the factors as they were before the call), then the
\* bias, impulse, weight and network factors, each once, and returns
\* get_vlb() of the state the sweep ends in.  With no dataset the call raises
\* and no factor is updated.
C2_MeanFieldOrder ==
    [][last'.op = "meanfield_coordinate_descent_step" =>
         LET n == Len(data_list["mf"])
             log == last'.log
             e == eng'["mf"]
             dl == data_list'["mf"]
         IN IF n = 0
            THEN ~last'.ok /\ log = <<>> /\ UNCHANGED <<eng, data_list, now>>
            ELSE /\ last'.ok
                 /\ StepsOf(log) = MeanFieldOrder(n)
                 /\ now' = now + n + 4
                 /\ \A d \in 1..n :
                       /\ log[d].d = d
                       /\ dl[d].parents.stamp = now + d
                       /\ dl[d].parents.read = <<eng["mf"].bias, eng["mf"].weight,
                                                 eng["mf"].impulse>>
                 /\ e.bias = now + n + 1 /\ e.impulse = now + n + 2
                 /\ e.weight = now + n + 3 /\ e.network = now + n + 4
                 /\ e.netRead = e.weight
                 /\ last'.ret = get_vlb([eng |-> e, dl |-> dl])
      ]_vars

\* A mean-field sweep over two datasets or more has returned its bound.
C2_StepOverDatasets ==
    /\ last.op = "meanfield_coordinate_descent_step" /\ last.ok
    /\ Len(data_list["mf"]) >= 2
    /\ last.ret[5] = now

\* C3: sgd_step with no dataset, or with two or more, fails its assertion
\* and changes nothing: no factor is updated and sgd_offset is neither
\* created nor advanced.
C3_SgdNeedsOneDataset ==
    [][(last'.op = "sgd_step" /\ Len(data_list["mf"]) # 1) =>
          /\ ~last'.ok /\ last'.err = "AssertionError"
          /\ UNCHANGED <<eng, data_list, sgd_offset, now, heap, fld>>
      ]_vars

\* sgd_step has been refused on a model with two datasets whose cursor
\* exists already.
C3_RefusedWithTwo ==
    /\ last.op = "sgd_step" /\ ~last.ok
    /\ Len(data_list["mf"]) = 2
    /\ sgd_offset >= 0

\* C4 (as stated): a tuple set_parameters accepts is canonical in every
\* field (A binary, W >= 0, g[k,k',:] on the simplex, lambda0 >= 0, c in
\* [0,C), p in [0,1], v >= 0, m on the simplex).
C4_AcceptedIsCanonical ==
    (last.op = "set_parameters" /\ last.ok) =>
        Canonical(Deref(heap, fld[last.m]))

\* C5: a set_parameters call that fails an assertion, whichever of the
\* eight, leaves every field of the model referring to the array it
\* referred to, with the contents it had.
C5_RejectedLeavesModel ==
    [][(last'.op = "set_parameters" /\ ~last'.ok) =>
          (fld' = fld /\ heap' = heap)]_vars

\* set_parameters has refused a tuple at its last assertion, the fields
\* before it differing from the model's.
C5_RefusedAtLast ==
    /\ last.op = "set_parameters" /\ ~last.ok /\ last.fail = 8
    /\ HasTuple(held)
    /\ Deref(heap, held).A # Deref(heap, fld[last.m]).A

\* The datasets of the two models that hold the same counts.
Common(m1, m2) ==
    {<<d1, d2>> \in (1..Len(data_list[m1])) \X (1..Len(data_list[m2])) :
        data_list[m1][d1].S = data_list[m2][d2].S}

C7_SampleIndependent ==
    [][HasTuple(sample') =>
          /\ Deref(heap', sample') = ghost'.snap
          /\ last'.op = "modify_sample" =>
                \A m \in Models : Deref(heap', fld'[m]) = Deref(heap, fld[m])
      ]_vars

\* C7 (amended): the same, for a sample that has not itself been given to
\* set_parameters.
C7_SampleIndependentUntilGiven ==
    [][(HasTuple(sample') /\ ~ghost'.given) =>
          /\ Deref(heap', sample') = ghost'.snap
          /\ last'.op = "modify_sample" =>
                \A m \in Models : Deref(heap', fld'[m]) = Deref(heap, fld[m])
      ]_vars

\* A sweep has changed the model's parameters after a sample was taken.
C7_SampleOutlivesSweep ==
    /\ HasTuple(sample) /\ ~ghost.given
    /\ last.op = "resample_model" /\ last.ok
    /\ Deref(heap, sample) # Deref(heap, fld["gibbs"])

\* C8 (as stated): no field of the tuple get_parameters() returns is the
\* object the model's field refers to.
C8_ReturnsCopies ==
    last.op = "get_parameters" =>
        \A f \in Fields : held[f] # fld[last.m][f]

\* C9: add_data(S), in both classes, fails unless S is a 2-dimensional
\* integer array of K columns without a negative entry, and a failing call
\* leaves the data lists as they were, no parents object made or updated.
C9_AddDataValidates ==
    [][last'.op = "add_data" =>
          /\ ~IsCountMatrix(last'.S) => ~last'.ok
          /\ ~last'.ok => /\ data_list' = data_list /\ std' = std
                          /\ now' = now /\ eng' = eng
                          /\ last'.log = <<>>
      ]_vars

\* add_data has refused a matrix with a negative entry on a model that
\* holds data already.
C9_RefusedNegative ==
    /\ last.op = "add_data" /\ ~last.ok /\ last.m = "gibbs"
    /\ last.S.nd /\ last.S.shape = <<MaxT, K>> /\ last.S.dtype = "int"
    /\ amin(last.S) < 0
    /\ Len(data_list["gibbs"]) = 1

\* C10 (as stated): generate(T=0) returns a 0 x K matrix without error,
\* whatever keep is.
C10_GenerateZero ==
    (last.op = "generate" /\ last.T = 0) =>
        (last.ok /\ last.S.shape = <<0, K>>)

\* The spectral radius of a K x K integer matrix M, K <= 3, is below 1:
\* every root of the characteristic polynomial p lies inside the unit circle
\* (the Schur-Cohn-Jury conditions on the coefficients of p).
Abs(x) == IF x < 0 THEN -x ELSE x

SpectralRadiusBelowOne(M) ==
    LET c == CharPoly(M)
        n == Len(c)
    IN IF n = 1 THEN Abs(c[1]) < 1
       ELSE IF n = 2
            THEN /\ Abs(c[2]) < 1
                 /\ 1 + c[1] + c[2] > 0
                 /\ 1 - c[1] + c[2] > 0
       ELSE /\ 1 + c[1] + c[2] + c[3] > 0
            /\ -1 + c[1] - c[2] + c[3] < 0
            /\ Abs(c[3]) < 1
            /\ Abs(c[3] * c[3] - 1) > Abs(c[3] * c[1] - c[2])

\* C11: for binary A and W >= 0, check_stability() returns True exactly
\* when the spectral radius of A * W (entry by entry) is below 1; at radius
\* 1 it returns False.
C11_StableIffRadiusBelowOne ==
    last.op = "check_stability" =>
        LET t == Deref(heap, fld[last.m])
            M == Arr(<<K, K>>, LAMBDA ix : t.A.el[ix] * t.W.el[ix])
        IN /\ last.ok
           /\ last.ret = SpectralRadiusBelowOne(M)

\* check_stability has returned False on a model with a cycle of weight 1
\* through two nodes: the spectral radius is 1.
C11_RadiusOne ==
    /\ last.op = "check_stability" /\ last.m = "gibbs" /\ ~last.ret
    /\ LET t == Deref(heap, fld["gibbs"])
       IN /\ \A ix \in DOMAIN t.A.el :
                t.A.el[ix] * t.W.el[ix]
                   = IF ix \in {<<1, 2>>, <<2, 1>>} THEN 1 ELSE 0

\* C12 (as stated): compute_rate given a process index that is not an
\* integer in 0..K-1 fails and returns no rate, in the network models (proc)
\* and in the standard model (ks).
C12_BadIndexFails ==
    (last.op = "compute_rate" /\ last.proc.ty # "none"
        /\ ~(last.proc.ty = "int" /\ last.proc.v \in 0..(K - 1))) =>
        (~last.ok /\ ~last.R.nd)

\* C13 (as stated): every entry of the standard model's weights is strictly
\* positive, after construction and after initialize_with_gibbs,
\* gradient_descent_step, sgd_step and fit_with_bfgs.
C13_WeightsPositive ==
    \A ix \in DOMAIN std.weights.el : std.weights.el[ix] > 0

\* C14: the property W returns, without a failed assertion, the matrix with
\* W[kout,kin] the sum over the B basis functions of
\* weights[kin, 1 + kout B + b].
C14_WIsManualSum ==
    last.op = "W" =>
        /\ last.ok
        /\ last.ret.nd /\ last.ret.shape = <<K, K>>
        /\ \A kout \in 1..K, kin \in 1..K :
              last.ret.el[<<kout, kin>>]
                 = SumTo(LAMBDA b : std.weights.el[<<kin, 1 + (kout - 1) * B + b>>], B)

\* W has been read from weights in which it is not symmetric.
C14_WRead ==
    /\ last.op = "W" /\ last.ok
    /\ \E kout \in 1..K, kin \in 1..K :
          last.ret.el[<<kout, kin>>] # last.ret.el[<<kin, kout>>]

\* What sgd_step(minibatchsize = T, ..) has to do for C15: take the whole
\* dataset and leave the factors a full sweep would leave.
WholeDatasetStep ==
    /\ last'.offset = 0 /\ last'.T_minibatch = last'.T
    /\ eng'["mf"].val = meanfield_coordinate_descent_step(X("mf")).x.eng.val

C18_CyclicCursor ==
    [][(last'.op = "sgd_step" /\ last'.ok) =>
          LET T == data_list["mf"][1].S.shape[1]
              mb == last'.minibatchsize
              off == sgd_offset'
          IN /\ off = IF sgd_offset = -1 \/ sgd_offset + mb >= T THEN 0
                      ELSE sgd_offset + mb
             /\ 0 <= off /\ off < T
             /\ last'.offset = off /\ last'.T = T
             /\ last'.sgd_end = (IF off + mb < T THEN off + mb ELSE T)
             /\ last'.T_minibatch = last'.sgd_end - off
             /\ 0 < last'.T_minibatch /\ last'.T_minibatch <= T
      ]_vars

\* The cursor has advanced into the dataset and a minibatch cut short by
\* the end of the dataset has been used.
C18_ShortMinibatch ==
    /\ last.op = "sgd_step" /\ last.ok
    /\ sgd_offset > 0 /\ last.T_minibatch < last.minibatchsize

\* C19: with one minibatchsize m from a call at offset 0 on, the bins used
\* are 0, 1, 2, .. in order, none skipped or repeated; after ceil(T/m)
\* calls they are all T bins, and there is no further call before the
\* cursor is back at 0.
C19_MinibatchesPartition ==
    ghost.cycle.m > 0 =>
        LET T == data_list["mf"][1].S.shape[1]
            c == ghost.cycle
            n == (T + c.m - 1) \div c.m
        IN /\ c.bins = [i \in 1..Len(c.bins) |-> i - 1]
           /\ Len(c.bins) <= T
           /\ c.calls <= n
           /\ c.calls = n => Len(c.bins) = T

\* Minibatches of one size, two or more and the last one cut short, have
\* covered the dataset.
C19_CycleDone ==
    /\ last.op = "sgd_step" /\ last.ok
    /\ ghost.cycle.m > 1 /\ ghost.cycle.calls >= 2
    /\ Len(ghost.cycle.bins) = last.T
    /\ last.T % ghost.cycle.m # 0

\* C20: in generate(T) the events of bin t add to rate rows t+1 .. t+L only,
\* all of them rows of the (T+L)-row buffer, and to no row <= t; so the rate
\* S[t,:] was drawn from is the R[t,:] returned, for every bin t.
C20_RateFinalWhenUsed ==
    last.op = "generate" =>
        LET t == Deref(heap, fld[last.m])
            T == last.T
            S == last.S
        IN /\ \A n \in 1..T :
                 LET w == GenWindow(n)
                     before == GenRate(t, T, S, n - 1)
                     after == GenRate(t, T, S, n)
                 IN /\ w.lo > n /\ w.hi - w.lo + 1 = BasisL
                    /\ w.hi <= T + BasisL
                    /\ \A ix \in DOMAIN after.el :
                          (ix[1] < w.lo \/ ix[1] > w.hi) =>
                              after.el[ix] = before.el[ix]
           /\ last.ok => \A ix \in Idx(<<T, K>>) :
                             last.used.el[ix] = last.R.el[ix]

\* generate has returned rates that the events of the first bin raised in
\* the second.
C20_RateRaised ==
    /\ last.op = "generate" /\ last.ok /\ last.T = MaxT
    /\ \E k \in 1..K : last.R.el[<<2, k>>] > last.R.el[<<1, k>>]

\* The bias, weight and impulse stamps of the Gibbs model's sub-models.
ParamStamps(e) == <<e.bias, e.weight, e.impulse>>

\* The parents of every dataset of dl were last resampled from the
\* sub-models as e has them, after the last update of each.
ParentsFresh(dl, e) ==
    \A d \in 1..Len(dl) :
        /\ dl[d].parents.read = ParamStamps(e)
        /\ \A n \in 1..3 : dl[d].parents.stamp > ParamStamps(e)[n]

\* C21: on the Gibbs model, at the end of every add_data, generate and
\* resample_model call, the last parents resample of every stored dataset
\* came after the last change of the bias, weight and impulse parameters
\* and used them; an add_data that returns (also from generate with keep)
\* appends exactly one dataset, its parents resampled from the parameters
\* of that moment, and leaves parameters and earlier datasets alone.
C21_ParentsNeverStale ==
    [][/\ ParentsFresh(data_list'["gibbs"], eng'["gibbs"])
       /\ (/\ last'.m = "gibbs" /\ last'.ok
           /\ \/ last'.op = "add_data"
              \/ last'.op = "generate" /\ last'.keep)
          => /\ Len(data_list'["gibbs"]) = Len(data_list["gibbs"]) + 1
             /\ SubSeq(data_list'["gibbs"], 1, Len(data_list["gibbs"]))
                   = data_list["gibbs"]
             /\ eng'["gibbs"] = eng["gibbs"]
             /\ LET p == data_list'["gibbs"][Len(data_list'["gibbs"])].parents
                IN /\ p.read = ParamStamps(eng["gibbs"])
                   /\ p.stamp = now'
                   /\ now' = now + 1]_vars

\* The model has generated and kept a second dataset after a sweep over
\* the first.
C21_AddedAfterSweep ==
    /\ last.op = "generate" /\ last.m = "gibbs" /\ last.ok /\ last.keep
    /\ Len(data_list["gibbs"]) = 2
    /\ eng["gibbs"].weight > 0

\* C22: an sgd_step of the mean-field model that returns leaves its one
\* dataset as it was: the same S, N and F and the same stored parents,
\* neither updated nor replaced.  The sampled parameters, the caller's
\* tuples, the other models and their datasets stay too; what changes is
\* sgd_offset and the bias, impulse, weight and network factors.
C22_SgdLeavesDataset ==
    [][(last'.op = "sgd_step" /\ last'.ok)
          => /\ Len(data_list["mf"]) = 1
             /\ data_list' = data_list
             /\ eng'["gibbs"] = eng["gibbs"]
             /\ heap' = heap /\ fld' = fld /\ held' = held
             /\ sample' = sample /\ std' = std
             /\ sgd_offset' >= 0
             /\ \A f \in {"bias", "impulse", "weight", "network"} :
                    eng'["mf"][f] > data_list'["mf"][1].parents.stamp]_vars

\* An sgd_step has moved the factors after a full sweep had updated the
\* stored parents: their expectations are those of the sweep.
C22_SgdAfterSweep ==
    /\ last.op = "sgd_step" /\ last.ok
    /\ data_list["mf"][1].parents.e > 0
    /\ data_list["mf"][1].parents.stamp > 1
    /\ eng["mf"].val.bias > 0
====
